---- MODULE Spec2Model ----
(***************************************************************************)
(* A model of custom_components/sector/client.py: the SectorAlarmAPI       *)
(* client (session lifecycle, request executor, data aggregation, action   *)
(* dispatch).  One instance, driven by one sequential caller.  The remote  *)
(* service is the environment: every request draws its outcome from a      *)
(* small set of responses, a timeout or a transport error.                 *)
(***************************************************************************)
EXTENDS Integers, Sequences, FiniteSets, TLC

VARIABLES
    access_token,    \* self.access_token: PyNone or a Python str
    headers,         \* self.headers: a dict, header name -> text
    session,         \* self.session: NoSession or the id of a ClientSession
    creds,           \* self.email, self.password, self.panel_id, self.panel_code
    data_endpoints,  \* self.data_endpoints: ordered dict, here a sequence of entries
    live,            \* ClientSession objects created and not yet closed
    pc,              \* "idle", or "retrieve" while retrieve_all_data is suspended
    idx,             \* retrieve_all_data: position of the loop in data_endpoints
    data,            \* retrieve_all_data: the local dict `data` (the snapshot)
    net,             \* what the remote side did with the most recent request
    last,            \* the most recent call: operation, exception, return value, requests
    issued,          \* the token stored by the most recent successful login()
    closed           \* close() or logout() has completed on this instance

vars == << access_token, headers, session, creds, data_endpoints, live,
           pc, idx, data, net, last, issued, closed >>

----------------------------------------------------------------------------
(* Bounds of the model *)

\* longest data-endpoint catalog
MaxCatalog == 2
\* ClientSession objects that can exist at once
MaxConnections == 2

----------------------------------------------------------------------------
(* Python values.  A value is a record: its type t, its text v (scalars   *)
(* and lists) and its members items (dicts).                              *)

NoItems == [k \in {} |-> ""]

PyNone == [t |-> "NoneType", v |-> "None", items |-> NoItems]
PyTrue == [t |-> "bool", v |-> "True", items |-> NoItems]
PyFalse == [t |-> "bool", v |-> "False", items |-> NoItems]
PyInt(s) == [t |-> "int", v |-> s, items |-> NoItems]
PyStr(s) == [t |-> "str", v |-> s, items |-> NoItems]
PyList(s) == [t |-> "list", v |-> s, items |-> NoItems]
PyDict(m) == [t |-> "dict", v |-> "", items |-> m]

\* Python truth value testing: `if x`, `not x`
Truthy(x) ==
    CASE x.t = "NoneType" -> FALSE
      [] x.t = "bool" -> x.v = "True"
      [] x.t = "int" -> x.v # "0"
      [] x.t = "str" -> x.v # ""
      [] x.t = "list" -> x.v # "[]"
      [] x.t = "dict" -> DOMAIN x.items # {}
      [] OTHER -> TRUE

\* dict.get(key): the member, or None; only a dict has .get
HasGet(x) == x.t = "dict"
DictGet(x, key) == IF key \in DOMAIN x.items THEN x.items[key] ELSE PyNone

----------------------------------------------------------------------------
(* The remote side *)

Tokens == {"tokA", "tokB"}

\* response bodies, as text
BodyObj == "{\"a\":1}"
BodyEmptyObj == "{}"
BodyEmptyArr == "[]"
BodyZero == "0"
BodyFalse == "false"
BodyNull == "null"
BodyHtml == "<html>"
BodyTokenNull == "{\"AuthorizationToken\":null}"
BodyTokenEmpty == "{\"AuthorizationToken\":\"\"}"
BodyToken(tok) == "{\"AuthorizationToken\":\"" \o tok \o "\"}"
BodyList == "[1]"
BodyImage == "{\"ImageData\":\"aGVsbG8=\"}"

\* json.loads: the bodies that parse, and what they parse to
Decodable(body) == body # BodyHtml
Decode(body) ==
    CASE body = BodyObj -> PyDict([a |-> PyInt("1")])
      [] body = BodyEmptyObj -> PyDict(NoItems)
      [] body = BodyEmptyArr -> PyList("[]")
      [] body = BodyZero -> PyInt("0")
      [] body = BodyFalse -> PyFalse
      [] body = BodyNull -> PyNone
      [] body = BodyList -> PyList("[1]")
      [] body = BodyImage -> PyDict([ImageData |-> PyStr("aGVsbG8=")])
      [] body = BodyTokenNull -> PyDict([AuthorizationToken |-> PyNone])
      [] body = BodyTokenEmpty -> PyDict([AuthorizationToken |-> PyStr("")])
      [] OTHER -> LET tok == CHOOSE k \in Tokens : body = BodyToken(k)
                  IN  PyDict([AuthorizationToken |-> PyStr(tok)])

CtJson == "application/json"
CtJsonCharset == "application/json; charset=utf-8"
CtHtml == "text/html"
CtMissing == ""

\* 'application/json' in content_type
ContainsJson(ctype) == ctype \in {CtJson, CtJsonCharset}

Response(status, ctype, body) ==
    [kind |-> "response", status |-> status, ctype |-> ctype, body |-> body]
Timeout == [kind |-> "timeout", status |-> 0, ctype |-> "", body |-> ""]
TransportError == [kind |-> "client_error", status |-> 0, ctype |-> "", body |-> ""]
NoOutcome == [kind |-> "none", status |-> 0, ctype |-> "", body |-> ""]

\* what the remote side can do with a data or action request
DataBodies == {BodyObj, BodyEmptyObj, BodyEmptyArr, BodyZero, BodyFalse, BodyNull, BodyHtml}
DataOutcomes ==
    { Response(200, CtJson, b) : b \in DataBodies }
    \cup { Response(200, CtJsonCharset, BodyObj), Response(200, CtHtml, BodyObj),
           Response(500, CtJson, BodyObj), Timeout, TransportError }

\* what the remote side can do with the login request
LoginOutcomes ==
    { Response(200, CtJson, BodyToken(k)) : k \in Tokens }
    \cup { Response(200, CtJson, b) :
             b \in {BodyEmptyObj, BodyTokenNull, BodyTokenEmpty, BodyEmptyArr, BodyHtml} }
    \cup { Response(200, CtHtml, BodyHtml),
           Response(401, CtJson, BodyEmptyObj), Response(403, CtHtml, BodyHtml),
           Timeout, TransportError }

\* what the remote side can do with the camera request
CameraOutcomes ==
    { Response(200, CtJson, b) : b \in {BodyImage, BodyObj, BodyEmptyObj, BodyList, BodyNull} }
    \cup { Response(200, CtHtml, BodyImage), Response(500, CtJson, BodyImage),
           Timeout, TransportError }

----------------------------------------------------------------------------
(* The instance *)

NoSession == 0
ConnIds == 1..MaxConnections

\* aiohttp.ClientSession(): a new object, distinct from every one still open
NewConn == CHOOSE c \in ConnIds \ live : \A d \in ConnIds \ live : c <= d

Credentials ==
    [email |-> "user@example.org", password |-> "secret",
     panel_id |-> "panel1", panel_code |-> "1234"]

API_URL == "https://mypagesapi.sectoralarm.net"

\* get_data_endpoints(panel_id): an ordered mapping key -> (method, url).  The
\* keys are taken distinct from the fixed key "Lock Status".  The catalogs tried
\* are the empty one and those of MaxCatalog entries whose methods run through
\* GET, POST and an unsupported one, from each starting point.
MethodOrder == << "GET", "POST", "PUT" >>
CatalogEntry(k, m) ==
    [key |-> "data" \o ToString(k), method |-> m,
     url |-> API_URL \o "/data" \o ToString(k)]
Catalog(n, shift) ==
    [k \in 1..n |-> CatalogEntry(k, MethodOrder[((k - 1 + shift) % Len(MethodOrder)) + 1])]
Catalogs ==
    { Catalog(0, 0) } \cup { Catalog(MaxCatalog, shift) : shift \in 0..(Len(MethodOrder) - 1) }

\* get_action_endpoints(): key -> (method, url)
ActionEndpoints ==
    [Arm |-> <<"POST", API_URL \o "/api/Panel/Arm">>,
     Disarm |-> <<"POST", API_URL \o "/api/Panel/Disarm">>,
     Lock |-> <<"POST", API_URL \o "/api/Panel/Lock">>,
     Unlock |-> <<"POST", API_URL \o "/api/Panel/Unlock">>]

EmptyDict == NoItems

\* d[key] = value on a dict
DictSet(d, key, value) ==
    [k \in DOMAIN d \cup {key} |-> IF k = key THEN value ELSE d[k]]

\* the headers login() derives from a token
AuthHeaders(tok) ==
    [Authorization |-> "Bearer " \o tok.v, Accept |-> "application/json"]

\* the record of a call: released holds the ClientSession objects it closed
NoCall ==
    [op |-> "none", arg |-> "", exc |-> "none", msg |-> "", ret |-> PyNone,
     reqs |-> <<>>, released |-> {}]

Init ==
    /\ access_token = PyNone
    /\ headers = EmptyDict
    /\ session = NoSession
    /\ creds = Credentials
    /\ data_endpoints \in Catalogs
    /\ live = {}
    /\ pc = "idle"
    /\ idx = 0
    /\ data = EmptyDict
    /\ net = NoOutcome
    /\ last = NoCall
    /\ issued = PyNone
    /\ closed = FALSE

----------------------------------------------------------------------------
(* Session Manager: login *)

\* response.json() of aiohttp: the content type is checked, then the body parsed
ResponseJson(out) ==
    IF ~ContainsJson(out.ctype) THEN [exc |-> "ContentTypeError", val |-> PyNone]
    ELSE IF ~Decodable(out.body) THEN [exc |-> "JSONDecodeError", val |-> PyNone]
    ELSE [exc |-> "none", val |-> Decode(out.body)]

\* the body of login() from the request on: what is raised, and the token and
\* headers the instance holds afterwards
\* a variant of LoginResult that forgets the stored token on a non-200 status
LoginResultClearing(out) ==
    LET keep(exc, msg) ==
            [exc |-> exc, msg |-> msg, token |-> access_token, headers |-> headers]
    IN
    CASE out.kind = "timeout" -> keep("AuthenticationError", "Timeout during login")
      [] out.kind = "client_error" -> keep("AuthenticationError", "Client error during login")
      [] OTHER ->
        IF out.status # 200
        THEN [exc |-> "AuthenticationError", msg |-> "Invalid credentials",
              token |-> PyNone, headers |-> EmptyDict]
        ELSE LET j == ResponseJson(out) IN
             IF j.exc = "ContentTypeError"
             THEN keep("AuthenticationError", "Client error during login")
             ELSE IF j.exc # "none" THEN keep(j.exc, "")
             ELSE IF ~HasGet(j.val) THEN keep("AttributeError", "")
             ELSE LET tok == DictGet(j.val, "AuthorizationToken") IN
                  IF ~Truthy(tok)
                  THEN [exc |-> "AuthenticationError", msg |-> "Invalid credentials",
                        token |-> tok, headers |-> headers]
                  ELSE [exc |-> "none", msg |-> "",
                        token |-> tok, headers |-> AuthHeaders(tok)]

\* what login() raises and what it leaves in access_token and headers
LoginResult(out) ==
    LET keep(exc, msg) ==
            [exc |-> exc, msg |-> msg, token |-> access_token, headers |-> headers]
    IN
    CASE out.kind = "timeout" -> keep("AuthenticationError", "Timeout during login")
      [] out.kind = "client_error" -> keep("AuthenticationError", "Client error during login")
      [] OTHER ->
        IF out.status # 200 THEN keep("AuthenticationError", "Invalid credentials")
        ELSE LET j == ResponseJson(out) IN
             IF j.exc = "ContentTypeError"
             THEN keep("AuthenticationError", "Client error during login")
             ELSE IF j.exc # "none" THEN keep(j.exc, "")
             ELSE IF ~HasGet(j.val) THEN keep("AttributeError", "")
             ELSE LET tok == DictGet(j.val, "AuthorizationToken") IN
                  IF ~Truthy(tok)
                  THEN [exc |-> "AuthenticationError", msg |-> "Invalid credentials",
                        token |-> tok, headers |-> headers]
                  ELSE [exc |-> "none", msg |-> "",
                        token |-> tok, headers |-> AuthHeaders(tok)]

LoginRequest(conn) ==
    [via |-> "login", method |-> "POST", url |-> API_URL \o "/api/Login/Login",
     headers |-> EmptyDict,
     payload |-> [userId |-> creds.email, password |-> creds.password],
     conn |-> conn, decoded |-> FALSE, result |-> PyNone, exc |-> "none"]

\* a variant of LoginConn that opens a ClientSession on every login()
LoginConnAlwaysNew == NewConn

\* `if self.session is None: self.session = aiohttp.ClientSession()`
LoginConn == IF session = NoSession THEN NewConn ELSE session

login(out) ==
    /\ pc = "idle"
    /\ session # NoSession \/ ConnIds \ live # {}
    /\ LET conn == LoginConn
           r == LoginResult(out)
       IN  /\ session' = conn
           /\ live' = live \cup {conn}
           /\ access_token' = r.token
           /\ headers' = r.headers
           /\ issued' = IF r.exc = "none" THEN r.token ELSE issued
           /\ net' = out
           /\ last' = [op |-> "login", arg |-> "", exc |-> r.exc, msg |-> r.msg,
                       ret |-> PyNone, reqs |-> << LoginRequest(conn) >>,
                       released |-> {}]
    /\ idx' = 0
    /\ data' = EmptyDict
    /\ UNCHANGED << creds, data_endpoints, pc, closed >>

----------------------------------------------------------------------------
(* Request Executor: _get and _post *)

\* a variant of HandleResponse that decodes every 200 body, whatever its content type
HandleResponseAnyType(out) ==
    LET absent == [exc |-> "none", ret |-> PyNone, decoded |-> FALSE] IN
    CASE out.kind = "timeout" -> absent
      [] out.kind = "client_error" -> absent
      [] OTHER ->
        IF out.status = 200
        THEN IF Decodable(out.body)
             THEN [exc |-> "none", ret |-> Decode(out.body), decoded |-> TRUE]
             ELSE [exc |-> "JSONDecodeError", ret |-> PyNone, decoded |-> TRUE]
        ELSE absent

\* the body of _get / _post inside the timeout: what is raised, what is returned,
\* and whether response.json() was called
HandleResponse(out) ==
    LET absent == [exc |-> "none", ret |-> PyNone, decoded |-> FALSE] IN
    CASE out.kind = "timeout" -> absent
      [] out.kind = "client_error" -> absent
      [] OTHER ->
        IF out.status = 200
        THEN IF ContainsJson(out.ctype)
             THEN IF Decodable(out.body)
                  THEN [exc |-> "none", ret |-> Decode(out.body), decoded |-> TRUE]
                  ELSE [exc |-> "JSONDecodeError", ret |-> PyNone, decoded |-> TRUE]
             ELSE absent
        ELSE absent

\* a variant of Execute that sends the request a second time when the first
\* attempt gave no result
ExecuteRetrying(via, method, url, payload, out) ==
    IF session = NoSession
    THEN [exc |-> "AttributeError", ret |-> PyNone, reqs |-> <<>>]
    ELSE LET h == HandleResponse(out)
             q == [via |-> via, method |-> method, url |-> url, headers |-> headers,
                   payload |-> payload, conn |-> session,
                   decoded |-> h.decoded, result |-> h.ret, exc |-> h.exc]
         IN  [exc |-> h.exc, ret |-> h.ret,
              reqs |-> IF h.exc = "none" /\ h.ret = PyNone THEN << q, q >> ELSE << q >>]

\* one call of the executor on the instance as it is: with no ClientSession,
\* self.session.get / .post is an attribute of None and nothing is sent
Execute(via, method, url, payload, out) ==
    IF session = NoSession
    THEN [exc |-> "AttributeError", ret |-> PyNone, reqs |-> <<>>]
    ELSE LET h == HandleResponse(out) IN
         [exc |-> h.exc, ret |-> h.ret,
          reqs |-> << [via |-> via, method |-> method, url |-> url, headers |-> headers,
                       payload |-> payload, conn |-> session,
                       decoded |-> h.decoded, result |-> h.ret, exc |-> h.exc] >>]

Get(url, out) == Execute("_get", "GET", url, EmptyDict, out)
Post(url, payload, out) == Execute("_post", "POST", url, payload, out)

\* the outcome the instance saw: none when nothing was sent
Seen(r, out) == IF r.reqs = <<>> THEN NoOutcome ELSE out

\* a call that leaves the instance alone ends: its record, and no snapshot
\* a variant of Finish that drops the token and the headers when the request
\* gave no result
FinishDroppingToken(op, arg, r, ret, out) ==
    LET failed == r.exc = "none" /\ r.reqs # <<>> /\ r.reqs[1].result = PyNone IN
    /\ last' = [op |-> op, arg |-> arg, exc |-> r.exc, msg |-> "",
                ret |-> IF r.exc = "none" THEN ret ELSE PyNone, reqs |-> r.reqs,
                released |-> {}]
    /\ net' = Seen(r, out)
    /\ idx' = 0
    /\ data' = EmptyDict
    /\ access_token' = IF failed THEN PyNone ELSE access_token
    /\ headers' = IF failed THEN EmptyDict ELSE headers
    /\ UNCHANGED << session, creds, data_endpoints, live, pc, issued, closed >>

\* the end of a call that writes nothing on the instance
Finish(op, arg, r, ret, out) ==
    /\ last' = [op |-> op, arg |-> arg, exc |-> r.exc, msg |-> "",
                ret |-> IF r.exc = "none" THEN ret ELSE PyNone, reqs |-> r.reqs,
                released |-> {}]
    /\ net' = Seen(r, out)
    /\ idx' = 0
    /\ data' = EmptyDict
    /\ UNCHANGED << access_token, headers, session, creds, data_endpoints, live,
                    pc, issued, closed >>

\* _get and _post called on their own
DirectUrl == API_URL \o "/api/direct"

CallGet(out) ==
    /\ pc = "idle"
    /\ LET r == Get(DirectUrl, out) IN Finish("_get", DirectUrl, r, r.ret, out)

CallPost(out) ==
    /\ pc = "idle"
    /\ LET r == Post(DirectUrl, [PanelId |-> creds.panel_id], out)
       IN  Finish("_post", DirectUrl, r, r.ret, out)

----------------------------------------------------------------------------
(* Data Aggregator: retrieve_all_data and get_lock_status *)

LockStatusKey == "Lock Status"
LockStatusUrl == API_URL \o "/api/panel/GetLockStatus?panelId=" \o Credentials.panel_id

\* get_lock_status(): `if response: return response / else: return []`
LockStatusResult(response) == IF Truthy(response) THEN response ELSE PyList("[]")

\* retrieve_all_data: `if response: data[key] = response`
Insert(d, key, response) == IF Truthy(response) THEN DictSet(d, key, response) ELSE d

get_lock_status(out) ==
    /\ pc = "idle"
    /\ LET r == Get(LockStatusUrl, out)
       IN  Finish("get_lock_status", "", r, LockStatusResult(r.ret), out)

\* data = {} and the loop is entered
retrieve_all_data ==
    /\ pc = "idle"
    /\ pc' = "retrieve"
    /\ idx' = 1
    /\ data' = EmptyDict
    /\ net' = NoOutcome
    /\ last' = [NoCall EXCEPT !.op = "retrieve_all_data"]
    /\ UNCHANGED << access_token, headers, session, creds, data_endpoints, live,
                    issued, closed >>

\* the `else` of `if method == "GET" / elif method == "POST"`: logged and skipped
Unsupported(e) == e.method \notin {"GET", "POST"}

\* one iteration of the loop over self.data_endpoints.items()
retrieve_entry(out) ==
    /\ pc = "retrieve"
    /\ idx <= Len(data_endpoints)
    /\ LET e == data_endpoints[idx] IN
       IF Unsupported(e)
       THEN /\ idx' = idx + 1
            /\ UNCHANGED << pc, data, net, last >>
       ELSE LET r == IF e.method = "GET"
                     THEN Get(e.url, out)
                     ELSE Post(e.url, [PanelId |-> creds.panel_id], out)
            IN  /\ net' = Seen(r, out)
                /\ last' = [last EXCEPT !.exc = r.exc, !.reqs = last.reqs \o r.reqs]
                /\ IF r.exc = "none"
                   THEN /\ data' = Insert(data, e.key, r.ret)
                        /\ idx' = idx + 1
                        /\ pc' = pc
                   ELSE /\ data' = EmptyDict
                        /\ idx' = 0
                        /\ pc' = "idle"
    /\ UNCHANGED << access_token, headers, session, creds, data_endpoints, live,
                    issued, closed >>

\* a variant of retrieve_lock_status that starts the retrieval over when the
\* lock-status fetch gave no result
retrieve_lock_status_retrying(out) ==
    /\ pc = "retrieve"
    /\ idx > Len(data_endpoints)
    /\ LET r == Get(LockStatusUrl, out) IN
       /\ net' = Seen(r, out)
       /\ IF r.exc = "none" /\ r.ret = PyNone
          THEN /\ last' = [last EXCEPT !.reqs = <<>>]
               /\ data' = EmptyDict
               /\ idx' = 1
               /\ pc' = "retrieve"
          ELSE /\ last' = [last EXCEPT !.exc = r.exc, !.reqs = last.reqs \o r.reqs]
               /\ data' = IF r.exc = "none"
                          THEN DictSet(data, LockStatusKey, LockStatusResult(r.ret))
                          ELSE EmptyDict
               /\ idx' = 0
               /\ pc' = "idle"
    /\ UNCHANGED << access_token, headers, session, creds, data_endpoints, live,
                    issued, closed >>

\* after the loop: locks_status = await self.get_lock_status(); return data
retrieve_lock_status(out) ==
    /\ pc = "retrieve"
    /\ idx > Len(data_endpoints)
    /\ LET r == Get(LockStatusUrl, out) IN
       /\ net' = Seen(r, out)
       /\ last' = [last EXCEPT !.exc = r.exc, !.reqs = last.reqs \o r.reqs]
       /\ data' = IF r.exc = "none"
                  THEN DictSet(data, LockStatusKey, LockStatusResult(r.ret))
                  ELSE EmptyDict
    /\ idx' = 0
    /\ pc' = "idle"
    /\ UNCHANGED << access_token, headers, session, creds, data_endpoints, live,
                    issued, closed >>

----------------------------------------------------------------------------
(* Action Dispatcher *)

\* a variant of ActionResult that tests the truth value of the result
ActionResultTruthy(result) == IF Truthy(result) THEN PyTrue ELSE PyFalse

\* `if result is not None: return True / else: return False`
ActionResult(result) == IF result # PyNone THEN PyTrue ELSE PyFalse

Modes == {"total", "partial"}
Serials == {"serial1"}
Plugs == {"plug1"}

Dispatch(op, arg, url, payload, out) ==
    /\ pc = "idle"
    /\ LET r == Post(url, payload, out) IN Finish(op, arg, r, ActionResult(r.ret), out)

arm_system(mode, out) ==
    Dispatch("arm_system", mode, ActionEndpoints["Arm"][2],
             [ArmCode |-> creds.panel_code, PanelId |-> creds.panel_id, ArmType |-> mode], out)

disarm_system(out) ==
    Dispatch("disarm_system", "", ActionEndpoints["Disarm"][2],
             [DisarmCode |-> creds.panel_code, PanelId |-> creds.panel_id], out)

lock_door(serial_no, out) ==
    Dispatch("lock_door", serial_no, ActionEndpoints["Lock"][2],
             [LockSerial |-> serial_no, PanelCode |-> creds.panel_code,
              PanelId |-> creds.panel_id, SerialNo |-> serial_no], out)

unlock_door(serial_no, out) ==
    Dispatch("unlock_door", serial_no, ActionEndpoints["Unlock"][2],
             [LockSerial |-> serial_no, PanelCode |-> creds.panel_code,
              PanelId |-> creds.panel_id, SerialNo |-> serial_no], out)

turn_on_smartplug(plug_id, out) ==
    Dispatch("turn_on_smartplug", plug_id, API_URL \o "/api/Panel/TurnOnSmartplug",
             [PanelId |-> creds.panel_id, DeviceId |-> plug_id], out)

turn_off_smartplug(plug_id, out) ==
    Dispatch("turn_off_smartplug", plug_id, API_URL \o "/api/Panel/TurnOffSmartplug",
             [PanelId |-> creds.panel_id, DeviceId |-> plug_id], out)

\* base64.b64decode of the image text
B64Decode(text) ==
    [t |-> "bytes", v |-> IF text.v = "aGVsbG8=" THEN "hello" ELSE "", items |-> NoItems]

\* `if response and response.get("ImageData")`: the bytes, None, or the
\* AttributeError of a true value that is no dict
CameraResult(response) ==
    IF ~Truthy(response) THEN [exc |-> "none", ret |-> PyNone]
    ELSE IF ~HasGet(response) THEN [exc |-> "AttributeError", ret |-> PyNone]
    ELSE IF ~Truthy(DictGet(response, "ImageData")) THEN [exc |-> "none", ret |-> PyNone]
    ELSE [exc |-> "none", ret |-> B64Decode(DictGet(response, "ImageData"))]

get_camera_image(serial_no, out) ==
    /\ pc = "idle"
    /\ LET r == Post(API_URL \o "/api/camera/GetCameraImage",
                     [PanelId |-> creds.panel_id, SerialNo |-> serial_no], out)
           c == IF r.exc = "none" THEN CameraResult(r.ret) ELSE [exc |-> r.exc, ret |-> PyNone]
       IN  Finish("get_camera_image", serial_no, [r EXCEPT !.exc = c.exc], c.ret, out)

----------------------------------------------------------------------------
(* Session Manager: logout and close *)

\* a variant of CloseResult that closes the ClientSession and keeps the handle
CloseResultKeepsHandle ==
    IF session # NoSession
    THEN [session |-> session, live |-> live \ {session}, released |-> {session}]
    ELSE [session |-> session, live |-> live, released |-> {}]

\* close(): `if self.session:` close it and forget it; the session left behind,
\* the objects still open and the objects this call closed
CloseResult ==
    IF session # NoSession
    THEN [session |-> NoSession, live |-> live \ {session}, released |-> {session}]
    ELSE [session |-> session, live |-> live, released |-> {}]

close ==
    /\ pc = "idle"
    /\ session' = CloseResult.session
    /\ live' = CloseResult.live
    /\ closed' = TRUE
    /\ last' = [NoCall EXCEPT !.op = "close", !.released = CloseResult.released]
    /\ net' = NoOutcome
    /\ idx' = 0
    /\ data' = EmptyDict
    /\ UNCHANGED << access_token, headers, creds, data_endpoints, pc, issued >>

\* a variant of LogoutCloses that closes only after a logout POST that gave a result
LogoutClosesOnResult(r) == r.exc = "none" /\ r.ret # PyNone

\* logout(): `await self._post(logout_url, {})` then `await self.close()`: the
\* result of the POST is not looked at; an exception of the POST ends logout()
LogoutCloses(r) == r.exc = "none"

logout(out) ==
    /\ pc = "idle"
    /\ LET r == Post(API_URL \o "/api/Login/Logout", EmptyDict, out) IN
       /\ net' = Seen(r, out)
       /\ IF LogoutCloses(r)
          THEN /\ session' = CloseResult.session
               /\ live' = CloseResult.live
               /\ closed' = TRUE
               /\ last' = [op |-> "logout", arg |-> "", exc |-> r.exc, msg |-> "",
                           ret |-> PyNone, reqs |-> r.reqs,
                           released |-> CloseResult.released]
          ELSE /\ last' = [op |-> "logout", arg |-> "", exc |-> r.exc, msg |-> "",
                           ret |-> PyNone, reqs |-> r.reqs, released |-> {}]
               /\ UNCHANGED << session, live, closed >>
    /\ idx' = 0
    /\ data' = EmptyDict
    /\ UNCHANGED << access_token, headers, creds, data_endpoints, pc, issued >>

----------------------------------------------------------------------------

Next ==
    \/ \E out \in LoginOutcomes : login(out)
    \/ \E out \in DataOutcomes : CallGet(out)
    \/ \E out \in DataOutcomes : CallPost(out)
    \/ \E out \in DataOutcomes : get_lock_status(out)
    \/ retrieve_all_data
    \/ \E out \in DataOutcomes : retrieve_entry(out)
    \/ \E out \in DataOutcomes : retrieve_lock_status(out)
    \/ \E mode \in Modes, out \in DataOutcomes : arm_system(mode, out)
    \/ \E out \in DataOutcomes : disarm_system(out)
    \/ \E serial_no \in Serials, out \in DataOutcomes : lock_door(serial_no, out)
    \/ \E serial_no \in Serials, out \in DataOutcomes : unlock_door(serial_no, out)
    \/ \E plug_id \in Plugs, out \in DataOutcomes : turn_on_smartplug(plug_id, out)
    \/ \E plug_id \in Plugs, out \in DataOutcomes : turn_off_smartplug(plug_id, out)
    \/ \E serial_no \in Serials, out \in CameraOutcomes : get_camera_image(serial_no, out)
    \/ \E out \in DataOutcomes : logout(out)
    \/ close

Spec == Init /\ [][Next]_vars

\* a suspended retrieve_all_data is resumed: each request it awaits ends, with an
\* answer, a transport error or the 10 s timeout of async_timeout
RetrieveStep ==
    \/ \E out \in DataOutcomes : retrieve_entry(out)
    \/ \E out \in DataOutcomes : retrieve_lock_status(out)

FairSpec == Spec /\ WF_vars(RetrieveStep)

----------------------------------------------------------------------------
(* Properties *)

\* the call named op has ended
Completed(op) == pc = "idle" /\ last.op = op
Returned(op) == Completed(op) /\ last.exc = "none"

ActionOps ==
    {"arm_system", "disarm_system", "lock_door", "unlock_door",
     "turn_on_smartplug", "turn_off_smartplug"}

\* the most recent request of the current call, when it went through the executor
SentByExecutor ==
    /\ last.reqs # <<>>
    /\ last.reqs[Len(last.reqs)].via \in {"_get", "_post"}
LastRequest == last.reqs[Len(last.reqs)]

\* the five outcomes of a request that the executor is specified for
DecodedOutcome(out) ==
    /\ out.kind = "response"
    /\ out.status = 200
    /\ ContainsJson(out.ctype)
    /\ Decodable(out.body)
NonJsonOutcome(out) ==
    out.kind = "response" /\ out.status = 200 /\ ~ContainsJson(out.ctype)
BadStatusOutcome(out) == out.kind = "response" /\ out.status # 200
FailedOutcome(out) ==
    \/ NonJsonOutcome(out)
    \/ BadStatusOutcome(out)
    \/ out.kind = "timeout"
    \/ out.kind = "client_error"

\* C1: in every reachable state the headers are derived from the stored token:
\* empty exactly when no token is stored (None or the empty string), and
\* otherwise the Bearer/Accept pair of the stored token.
C1_HeadersDerivedFromToken ==
    /\ (headers = EmptyDict) <=> ~Truthy(access_token)
    /\ Truthy(access_token) => headers = AuthHeaders(access_token)

\* C2: every request sent by _get or _post carries the Bearer/Accept headers of
\* the non-empty token issued by the most recent successful login().
C2_RequestsCarryIssuedToken ==
    \A i \in 1..Len(last.reqs) :
        last.reqs[i].via \in {"_get", "_post"} =>
            /\ Truthy(issued)
            /\ last.reqs[i].headers = AuthHeaders(issued)

\* C3: once close() or logout() has completed, the instance never again holds a
\* connection, and no later call sends a request.
C3_ClosedIsTerminal ==
    closed =>
        /\ session = NoSession
        /\ last.op \notin {"close", "logout"} => last.reqs = <<>>

\* a login answer that is rejected: a non-200 status, or a 200 JSON object
\* without a non-empty AuthorizationToken
LoginRejected(out) ==
    /\ out.kind = "response"
    /\ \/ out.status # 200
       \/ /\ DecodedOutcome(out)
          /\ HasGet(Decode(out.body))
          /\ ~Truthy(DictGet(Decode(out.body), "AuthorizationToken"))

\* C4: a login() answered by a non-200 status, or by a 200 JSON object without a
\* non-empty AuthorizationToken, raises AuthenticationError and leaves the token
\* unset, on a first login and on a later one alike.
C4_RejectedLoginLeavesTokenUnset ==
    Completed("login") /\ LoginRejected(net) =>
        /\ last.exc = "AuthenticationError"
        /\ ~Truthy(access_token)

\* C5: after close() or logout() has completed, the token is unset and the
\* headers are empty, as at construction.
C5_CloseClearsSession ==
    (Returned("close") \/ Returned("logout")) =>
        /\ access_token = PyNone
        /\ headers = EmptyDict

EntryRequests(e) == { i \in 1..Len(last.reqs) : last.reqs[i].url = e.url }

\* C7: the returned snapshot holds the key of a GET/POST catalog entry exactly
\* when the executor returned a present result for it, and then maps it to that
\* value, whatever the decoded value is.
C7_SnapshotHoldsPresentResults ==
    Returned("retrieve_all_data") =>
        \A k \in 1..Len(data_endpoints) :
            LET e == data_endpoints[k] IN
            e.method \in {"GET", "POST"} =>
                \A i \in EntryRequests(e) :
                    /\ e.key \in DOMAIN data <=> last.reqs[i].result # PyNone
                    /\ e.key \in DOMAIN data => data[e.key] = last.reqs[i].result

\* C8: retrieve_all_data never raises, in whatever session state it is called.
C8_RetrieveNeverRaises ==
    Completed("retrieve_all_data") => last.exc = "none"

\* C9: every returned snapshot holds "Lock Status": the decoded lock-status
\* response when the fetch returned a present result, an empty list when it
\* failed.
C9_LockStatusAlwaysPresent ==
    Returned("retrieve_all_data") =>
        /\ LockStatusKey \in DOMAIN data
        /\ LastRequest.url = LockStatusUrl
        /\ LastRequest.result # PyNone => data[LockStatusKey] = LastRequest.result
        /\ LastRequest.result = PyNone => data[LockStatusKey] = PyList("[]")

\* C10 as stated: an action operation returns true whenever its endpoint answers
\* with status 200 and false whenever it answers with another status.
C10_TrueOnStatus200 ==
    pc = "idle" /\ last.op \in ActionOps /\ SentByExecutor /\ net.kind = "response" =>
        /\ net.status = 200 => last.exc = "none" /\ last.ret = PyTrue
        /\ net.status # 200 => last.exc = "none" /\ last.ret = PyFalse

\* C10, amended: an action operation that returns has sent one POST; it returns
\* true exactly when _post returned a value other than None and false exactly
\* when it returned None: true for a 200 JSON response whose body decodes to a
\* value other than null, false for a non-200 status, a 200 non-JSON response, a
\* timeout and a transport error.
C10_ActionResultFollowsExecutor ==
    \A op \in ActionOps :
        Returned(op) =>
            /\ Len(last.reqs) = 1
            /\ LastRequest.via = "_post"
            /\ last.ret \in {PyTrue, PyFalse}
            /\ last.ret = PyTrue <=> LastRequest.result # PyNone
            /\ DecodedOutcome(net) /\ Decode(net.body) # PyNone => last.ret = PyTrue
            /\ FailedOutcome(net) => last.ret = PyFalse

\* C10 happens: arm_system answered 200 with a non-JSON content type returned false.
C10_Witness ==
    /\ Returned("arm_system")
    /\ NonJsonOutcome(net)
    /\ last.ret = PyFalse

\* C11: close() never raises and is idempotent: from any state it ends normally
\* with the handle unset, having closed the ClientSession it held (none if it
\* held none) and sent nothing; a close() right after a close() changes nothing
\* and closes nothing.
C11_CloseIdempotent ==
    [][ last'.op = "close" =>
          /\ pc' = "idle"
          /\ last'.exc = "none"
          /\ last'.reqs = <<>>
          /\ session' = NoSession
          /\ last'.released = (IF session = NoSession THEN {} ELSE {session})
          /\ live' = live \ last'.released
          /\ Completed("close") =>
                /\ last'.released = {}
                /\ UNCHANGED << access_token, headers, session, creds, data_endpoints,
                                live, closed >> ]_vars

\* C11 happens: a close() on an instance holding a connection has closed it.
C11_Witness ==
    /\ Returned("close")
    /\ last.released # {}
    /\ session = NoSession
    /\ live = {}

C13_LoginTwoOutcomes ==
    Completed("login") =>
        /\ \/ last.exc = "none" /\ Truthy(access_token)
           \/ last.exc = "AuthenticationError"
        /\ net.kind \in {"timeout", "client_error"} => last.exc = "AuthenticationError"

\* C14: no call hangs.  A call other than retrieve_all_data ends in the step
\* that makes it; a started retrieve_all_data always ends; and a request the
\* remote side never answers ends by the timeout: with AuthenticationError in
\* login(), with an absent result in _get / _post.
C14_NoCallHangs ==
    /\ [](pc = "idle" \/ (pc = "retrieve" /\ last.op = "retrieve_all_data"))
    /\ [](net = Timeout /\ last.op = "login" =>
              pc = "idle" /\ last.exc = "AuthenticationError"
                          /\ last.msg = "Timeout during login")
    /\ [](net = Timeout /\ SentByExecutor =>
              LastRequest.exc = "none" /\ LastRequest.result = PyNone)
    /\ (pc = "retrieve") ~> (pc = "idle")

\* C14 happens: a retrieve_all_data whose last request was never answered has returned.
C14_Witness ==
    /\ Returned("retrieve_all_data")
    /\ Len(last.reqs) > 1
    /\ net = Timeout

\* C15: get_camera_image does not raise, and returns the decoded image exactly
\* when _post returned a present response that contains ImageData: for an absent
\* response and for a present value without ImageData it returns None.
C15_CameraImageIffImageData ==
    Completed("get_camera_image") /\ SentByExecutor /\ LastRequest.exc = "none" =>
        LET response == LastRequest.result
            hasImage == /\ response # PyNone
                        /\ HasGet(response)
                        /\ "ImageData" \in DOMAIN response.items
        IN  /\ last.exc = "none"
            /\ hasImage => last.ret = B64Decode(response.items["ImageData"])
            /\ ~hasImage => last.ret = PyNone

\* what was sent in the current call: method, url and payload of each request
RequestShape(q) == [method |-> q.method, url |-> q.url, payload |-> q.payload]
SentShapes == [i \in 1..Len(last.reqs) |-> RequestShape(last.reqs[i])]

\* what one retrieve_all_data is to send: one request per GET / POST entry, in
\* catalog order, POST with {PanelId}, then the lock-status GET
IsSupported(e) == e.method \in {"GET", "POST"}
EntryShape(e) ==
    [method |-> e.method, url |-> e.url,
     payload |-> IF e.method = "POST" THEN [PanelId |-> creds.panel_id] ELSE EmptyDict]
LockShape == [method |-> "GET", url |-> LockStatusUrl, payload |-> EmptyDict]
ExpectedShapes(n) ==
    LET sel == SelectSeq(SubSeq(data_endpoints, 1, n), IsSupported)
    IN  [k \in 1..Len(sel) |-> EntryShape(sel[k])]

\* C16 as stated: every retrieve_all_data invocation issues exactly one request
\* per GET / POST catalog entry, in catalog order, none for another method, and
\* the lock-status GET last.
C16_OneRequestPerEntry ==
    Completed("retrieve_all_data") =>
        SentShapes = ExpectedShapes(Len(data_endpoints)) \o << LockShape >>

\* what holds of the order whatever the outcome: an invocation that returns has
\* issued exactly that sequence; while it runs, and when it is ended by an
\* exception, it has issued the beginning of it: the requests of the entries the
\* loop has passed, one at a time and in catalog order, nothing for an
\* unsupported entry.
RequestsInCatalogOrder ==
    last.op = "retrieve_all_data" =>
        LET all == ExpectedShapes(Len(data_endpoints)) \o << LockShape >> IN
        /\ Len(SentShapes) <= Len(all)
        /\ SentShapes = SubSeq(all, 1, Len(SentShapes))
        /\ pc = "retrieve" => SentShapes = ExpectedShapes(idx - 1)
        /\ Returned("retrieve_all_data") => SentShapes = all
        /\ \A i \in 1..Len(last.reqs) :
              /\ last.reqs[i].conn = session
              /\ last.reqs[i].via = (IF last.reqs[i].method = "GET" THEN "_get" ELSE "_post")

\* a returned retrieve_all_data skipped an unsupported first entry and sent the
\* request of the second entry, then the lock-status GET
SkippedUnsupportedEntry ==
    /\ Returned("retrieve_all_data")
    /\ Len(data_endpoints) > 1
    /\ ~IsSupported(data_endpoints[1])
    /\ Len(last.reqs) = 2
    /\ RequestShape(last.reqs[2]) = LockShape

\* the calls that make one request
SingleRequestOps ==
    ActionOps \cup {"_get", "_post", "get_lock_status", "get_camera_image", "logout"}

\* C17 as stated: no retry and no re-login, and every action operation sends
\* exactly one POST.
C17_ExactlyOnePost ==
    /\ last.op \in SingleRequestOps \cup {"login"} => Len(last.reqs) <= 1
    /\ \A op \in ActionOps :
          Completed(op) => Len(last.reqs) = 1 /\ last.reqs[1].method = "POST"

\* C17, amended: a call of _get, _post, login or an action operation sends at
\* most one request; an action operation sends exactly one POST when a
\* connection is held and none when none is held (it ends with AttributeError);
\* no call but login() sends a login request, and retrieve_all_data sends no
\* request twice, whatever the outcomes.
C17_NoRetryNoRelogin ==
    /\ last.op \in SingleRequestOps \cup {"login"} => Len(last.reqs) <= 1
    /\ \A op \in ActionOps :
          Completed(op) =>
              /\ session # NoSession =>
                    /\ Len(last.reqs) = 1
                    /\ last.reqs[1].method = "POST"
                    /\ last.reqs[1].via = "_post"
              /\ session = NoSession =>
                    last.reqs = <<>> /\ last.exc = "AttributeError"
    /\ \A i \in 1..Len(last.reqs) :
          /\ last.reqs[i].via = "login" <=> last.op = "login"
          /\ \A j \in 1..Len(last.reqs) : last.reqs[i].url = last.reqs[j].url => i = j

\* C17 happens: an arm_system whose POST failed has returned after that one request.
C17_Witness ==
    /\ Returned("arm_system")
    /\ FailedOutcome(net)
    /\ Len(last.reqs) = 1
    /\ last.ret = PyFalse

\* C18: in every reachable state at most one connection is open, one is open
\* exactly when the connection handle is set, and it is the one the handle names;
\* a login() called while a connection is held sends its request on that
\* connection and opens no other.
C18_AtMostOneConnection ==
    /\ [](/\ Cardinality(live) <= 1
          /\ (Cardinality(live) = 1) <=> (session # NoSession)
          /\ session # NoSession => live = {session})
    /\ [][ last'.op = "login" /\ session # NoSession =>
              /\ session' = session
              /\ live' = live
              /\ last'.reqs[1].conn = session ]_vars

\* C18 happens: with a token issued earlier and no close() in between, a later
\* login() has failed, and the one connection of the first login is the only one.
C18_Witness ==
    /\ Completed("login")
    /\ ~closed
    /\ Truthy(issued)
    /\ last.exc = "AuthenticationError"
    /\ live = {session}
    /\ last.reqs[1].conn = session

\* a login answer that fails before the token is read
LoginFailedEarly(out) ==
    \/ BadStatusOutcome(out)
    \/ out.kind = "timeout"
    \/ out.kind = "client_error"

\* C19: a login() that fails by a non-200 status, a timeout or a transport error
\* raises AuthenticationError, leaves access_token and headers as they were
\* before the call, and leaves the connection it created or reused open.
C19_FailedLoginKeepsSession ==
    [][ last'.op = "login" /\ LoginFailedEarly(net') =>
          /\ last'.exc = "AuthenticationError"
          /\ UNCHANGED << access_token, headers >>
          /\ session' # NoSession
          /\ session' \in live'
          /\ session # NoSession => session' = session ]_vars

\* C19 happens: a login() answered by a non-200 status has failed while the
\* token and headers of an earlier login are still in force on an open connection.
C19_Witness ==
    /\ Completed("login")
    /\ BadStatusOutcome(net)
    /\ last.exc = "AuthenticationError"
    /\ Truthy(access_token)
    /\ access_token = issued
    /\ headers = AuthHeaders(issued)
    /\ session \in live

\* C20: every step of a data or action operation leaves the token, the headers,
\* the connection handle and the open connections as they are; the token and
\* headers change only in a step of login(), the connection handle only in a step
\* of login(), close() or logout(), and the credentials and the catalog never.
C20_DataAndActionsKeepSession ==
    [][ /\ last'.op # "login" => UNCHANGED << access_token, headers >>
        /\ last'.op \notin {"login", "close", "logout"} => UNCHANGED << session, live >>
        /\ UNCHANGED << creds, data_endpoints >> ]_vars

\* C20 happens: an arm_system whose POST failed has returned, and the token, the
\* headers and the connection of the login before it are all still there.
C20_Witness ==
    /\ Returned("arm_system")
    /\ FailedOutcome(net)
    /\ Truthy(access_token)
    /\ headers = AuthHeaders(access_token)
    /\ session \in live

====
